---------------------------- MODULE Spec2Model ----------------------------
(***************************************************************************)
(* Ray propagation in an optical fibre: Ray_cylinder                       *)
(* (src/figures/ray_cylinder.py) traced through Fiber_cylinder and         *)
(* Fiber_cone (src/fiber/fibers.py).                                       *)
(*                                                                         *)
(* Numbers.  The program computes in IEEE doubles.  Here a double is an    *)
(* integer in fixed point:                                                 *)
(*   - angles, sines, cosines, dot products, refractive indices and random *)
(*     draws are multiples of 1/SCALE (an angle of 1745 is 0.1745 rad);    *)
(*   - lengths are multiples of 1/LUNIT metre (core_r = 1000 is 1e-4 m);   *)
(*   - NaN is the one extra value: every operation propagates it and every *)
(*     comparison with it is false, as in IEEE arithmetic.                 *)
(* Products are rounded to the nearest unit (Quot).  Infinities are not    *)
(* represented: the only division by zero the modelled inputs reach is     *)
(* 0/0 (find_normal on the axis), which is NaN.                            *)
(***************************************************************************)
EXTENDS Integers, Sequences, FiniteSets, TLC

SCALE == 10000
LUNIT == 10000000
PI == 31416
HALFPI == PI \div 2
TWOPI == 2 * PI
NaN == -999999999

Abs(a) == IF a < 0 THEN -a ELSE a

\* a / b rounded to the nearest integer (half away from zero); NaN and x/0 give NaN
Quot(a, b) ==
    IF a = NaN \/ b = NaN \/ b = 0 THEN NaN
    ELSE LET q == (2 * Abs(a) + Abs(b)) \div (2 * Abs(b))
         IN  IF (a >= 0) = (b > 0) THEN q ELSE -q

FAdd(a, b) == IF a = NaN \/ b = NaN THEN NaN ELSE a + b
FSub(a, b) == IF a = NaN \/ b = NaN THEN NaN ELSE a - b
FNeg(a) == IF a = NaN THEN NaN ELSE -a
FAbs(a) == IF a = NaN THEN NaN ELSE Abs(a)
\* a * b / SCALE for a, b >= 0, rounded to nearest; the product is formed in
\* parts so that it stays within 32-bit integers
MulAbs(a, b) ==
    (a \div SCALE) * (b \div SCALE) * SCALE + (a \div SCALE) * (b % SCALE)
    + (a % SCALE) * (b \div SCALE) + Quot((a % SCALE) * (b % SCALE), SCALE)
\* product of a 1/SCALE quantity with any quantity
FMul(a, b) ==
    IF a = NaN \/ b = NaN THEN NaN
    ELSE IF (a >= 0) = (b >= 0) THEN MulAbs(Abs(a), Abs(b))
    ELSE -MulAbs(Abs(a), Abs(b))
\* quotient of two quantities of the same unit, as a 1/SCALE quantity
FDiv(a, b) == IF a = NaN \/ b = NaN THEN NaN ELSE Quot(a * SCALE, b)
\* x**2 kept in squared units
FSq(a) == IF a = NaN THEN NaN ELSE a * a
FLt(a, b) == a # NaN /\ b # NaN /\ a < b
FGt(a, b) == a # NaN /\ b # NaN /\ a > b
FIsZero(a) == a # NaN /\ a = 0

\* angle reduced to (-PI, PI]
WrapAngle(x) == LET m == x % TWOPI IN IF m > PI THEN m - TWOPI ELSE m

\* sine series on [-HALFPI, HALFPI]
SinSeries(x) ==
    LET x2 == Quot(x * x, SCALE)
        h4 == SCALE - Quot(x2, 72)
        h3 == SCALE - Quot(x2 * h4, 42 * SCALE)
        h2 == SCALE - Quot(x2 * h3, 20 * SCALE)
        h1 == SCALE - Quot(x2 * h2, 6 * SCALE)
    IN  Quot(x * h1, SCALE)

\* cosine series on [0, HALFPI]
CosSeries(x) ==
    LET x2 == Quot(x * x, SCALE)
        h5 == SCALE - Quot(x2, 90)
        h4 == SCALE - Quot(x2 * h5, 56 * SCALE)
        h3 == SCALE - Quot(x2 * h4, 30 * SCALE)
        h2 == SCALE - Quot(x2 * h3, 12 * SCALE)
    IN  SCALE - Quot(x2 * h2, 2 * SCALE)

\* np.sin
Sin(x) ==
    IF x = NaN THEN NaN
    ELSE LET w == WrapAngle(x)
         IN  IF w > HALFPI THEN SinSeries(PI - w)
             ELSE IF w < -HALFPI THEN -SinSeries(PI + w)
             ELSE SinSeries(w)

\* np.cos
Cos(x) ==
    IF x = NaN THEN NaN
    ELSE LET w == Abs(WrapAngle(x))
         IN  IF w > HALFPI THEN -CosSeries(PI - w) ELSE CosSeries(w)

RECURSIVE ArcCosBisect(_, _, _)
\* an angle in (lo, hi] whose cosine is c, found by bisection (Cos(hi) <= c)
ArcCosBisect(c, lo, hi) ==
    IF hi - lo <= 1 THEN hi
    ELSE LET mid == (lo + hi) \div 2
         IN  IF Cos(mid) <= c THEN ArcCosBisect(c, lo, mid)
             ELSE ArcCosBisect(c, mid, hi)

\* np.arccos: NaN outside [-1, 1]
ArcCos(c) ==
    IF c = NaN \/ c > SCALE \/ c < -SCALE THEN NaN
    ELSE IF c = SCALE THEN 0
    ELSE IF c >= 0 THEN ArcCosBisect(c, 0, HALFPI)
    ELSE IF c = -SCALE THEN PI
    ELSE PI - ArcCosBisect(-c, 0, HALFPI)

\* np.arcsin: NaN outside [-1, 1]
ArcSin(c) ==
    IF c = NaN \/ c > SCALE \/ c < -SCALE THEN NaN
    ELSE HALFPI - ArcCos(c)

RECURSIVE SqrtBisect(_, _, _)
\* the largest f in [lo, hi) with f*f <= n
SqrtBisect(n, lo, hi) ==
    IF hi - lo <= 1 THEN lo
    ELSE LET mid == (lo + hi) \div 2
         IN  IF mid * mid <= n THEN SqrtBisect(n, mid, hi)
             ELSE SqrtBisect(n, lo, mid)

\* np.sqrt of a squared-unit quantity, rounded to nearest: NaN below zero
Sqrt(n) ==
    IF n = NaN \/ n < 0 THEN NaN
    ELSE LET f == SqrtBisect(n, 0, 46341)
         IN  IF n - f * f > f THEN f + 1 ELSE f

\* np.rad2deg: 1/SCALE radians to 1/100 degrees
Rad2Deg(a) == IF a = NaN THEN NaN ELSE Quot(a * 18000, PI)


(***************************************************************************)
(* Bounds and inputs                                                       *)
(***************************************************************************)
\* largest reflection budget a caller passes explicitly
MaxReflection == 3
\* max_reflection = 1000, the default of calculate_trajectory
DefaultMaxReflection == 1000

\* max_latitude = 30.0 degrees, the default of generate_angles, in 1e-2 degree
DefaultMaxLatitude == 3000
\* most calls of calculate_trajectory on one ray object
MaxCalls == 2
\* most setter and generator calls on one ray object
MaxEdits == 2

\* the ray of a single trace, and the rays of a batch through one geometry
OneRay == {1}
BatchRays == {1, 2}
Origin == <<0, 0, 0>>

\* constructor arguments of Fiber_cylinder:
\* <<core_r, clad_r, core_n, clad_n, z_max, diffusion>>; diffusion 0 stands
\* for None (both are false at ray_cylinder.py:283)
CylinderArgs ==
    { <<1000, 1200, 14800, 14600, LUNIT, 0>>,
      <<1000, 1200, 14800, 14600, 12000, 0>>,
      <<1000, 1200, 14600, 14600, 12000, 0>>,
      <<1000, 1200, 14600, 14800, 12000, 0>>,
      <<1000, 1200, 14800, 14600, 12000, 200>> }

\* constructor arguments of Fiber_cone: <<z_max, base_r, top_r>>
ConeArgs == { <<12000, 1000, 500>>, <<400, 1000, 500>> }

\* arguments of Fiber_cylinder.set_geometry: <<core_r, clad_r, z>>
GeometryArgs == { <<2000, 2400, 5000>> }

\* arguments of set_refr: <<core_n, clad_n>>
RefrArgs == { <<14600, 14800>>, <<15000, 13000>> }

\* the indices set around a trace with the default budget; with the other
\* pairs the scenario's ray is reflected on, and over the hundreds of
\* reflections of a metre of fiber the fixed point drifts from the floats
DefaultRefrArgs == { <<15000, 14900>> }

\* constructor arguments of Ray_cylinder: <<azimut, latitude, startpoint>>
RayArgs ==
    { <<0, 1745, Origin>>,
      <<HALFPI, 1745, <<500, 0, 0>> >>,
      <<0, 0, Origin>>,
      <<0, 0, <<500, 0, 0>> >>,
      <<HALFPI, 1745, <<2000, 0, 0>> >>,
      <<0, 5236, <<-500, 0, 0>> >>,
      <<0, 1745, <<0, 0, 10000>> >> }

\* a ray within the critical angle of the 1.48 / 1.46 fibers; over the
\* hundreds of reflections of a metre of fiber the fixed point drifts from
\* the floats, so it is traced with explicit budgets only
ShallowRayArgs == { <<0, 1600, <<900, 0, -10000>> >> }

\* initial states of the global numpy generator
Seeds == {1, 2}

(***************************************************************************)
(* Fiber_cylinder and Fiber_cone                                           *)
(***************************************************************************)
\* Fiber_cylinder.__init__
Fiber_cylinder(core_r, clad_r, core_n, clad_n, z_max, diffusion) ==
    [ kind |-> "cylinder", diffusion |-> diffusion, core_r |-> core_r,
      clad_r |-> clad_r, core_n |-> core_n, clad_n |-> clad_n, z_max |-> z_max ]

\* Fiber_cylinder.set_geometry
Cylinder_set_geometry(f, core_r, clad_r, z) ==
    [ f EXCEPT !.core_r = core_r, !.clad_r = clad_r, !.z_max = z ]

\* Fiber_cylinder.set_refr
Cylinder_set_refr(f, core_n, clad_n) ==
    [ f EXCEPT !.core_n = core_n, !.clad_n = clad_n ]

\* np.arcsin((base_r - top_r) / z_max)
ConeAngle(z_max, base_r, top_r) == ArcSin(FDiv(base_r - top_r, z_max))

\* np.sin(self.angle) / np.cos(self.angle)
ConeC(angle) == FDiv(Sin(angle), Cos(angle))

\* Fiber_cone.__init__, given self.angle
ConeWithAngle(z_max, base_r, top_r, core_n, clad_n, diffusion, angle) ==
    [ kind |-> "cone", diffusion |-> diffusion, z_max |-> z_max,
      angle |-> angle, base_r |-> base_r, top_r |-> top_r, c |-> ConeC(angle),
      core_n |-> core_n, clad_n |-> clad_n ]

\* Fiber_cone.__init__
Fiber_cone(z_max, base_r, top_r, core_n, clad_n, diffusion) ==
    ConeWithAngle(z_max, base_r, top_r, core_n, clad_n, diffusion,
                  ConeAngle(z_max, base_r, top_r))

\* Fiber_cone.set_geometry, given the new self.angle
ConeReset(f, z_max, base_r, top_r, angle) ==
    [ f EXCEPT !.base_r = base_r, !.top_r = top_r, !.angle = angle,
               !.z_max = z_max, !.c = ConeC(angle) ]

\* Fiber_cone.set_geometry
Cone_set_geometry(f, z_max, base_r, top_r) ==
    ConeReset(f, z_max, base_r, top_r, ConeAngle(z_max, base_r, top_r))

\* Fiber_cone.set_refr
Cone_set_refr(f, core_n, clad_n) ==
    [ f EXCEPT !.core_n = core_n, !.clad_n = clad_n ]

\* -1 * np.array([x, y, 0]) / norm, with norm = np.sqrt(x**2 + y**2)
NormalOver(x, y, norm) == << FNeg(FDiv(x, norm)), FNeg(FDiv(y, norm)), FNeg(FDiv(0, norm)) >>

\* Fiber_cylinder.find_normal
find_normal(intersection_point) ==
    NormalOver(intersection_point[1], intersection_point[2],
               Sqrt(FAdd(FSq(intersection_point[1]), FSq(intersection_point[2]))))

\* attribute lookup on an object: AttributeError when the field is missing
HasAttr(obj, name) == name \in DOMAIN obj

(***************************************************************************)
(* Ray_cylinder                                                            *)
(***************************************************************************)
\* [sin(lat)cos(az), sin(lat)sin(az), cos(lat)]
Direction(azimut, latitude) ==
    << FMul(Sin(latitude), Cos(azimut)), FMul(Sin(latitude), Sin(azimut)),
       Cos(latitude) >>

\* Ray_cylinder.__init__ and Ray_cylinder.set_values
set_values(azimut, latitude, startpoint) ==
    [ azimut |-> azimut, latitude |-> latitude, startpoint |-> startpoint,
      vector |-> Direction(azimut, latitude) ]

\* lines 95-103, given latitude and the cos and sin of the azimuth: the set
\* of pairs <<azimut, latitude>> the floats can give.  A sin that is 0 here
\* is in the floats 0 or a rounding residue of either sign (2.4e-16 for a ray
\* reflected in the plane y = 0), so the test sin > 0 at line 99 can go
\* either way and both signs of azimut are possible.
AnglesFromCosSin(latitude, cos, sin) ==
    IF FIsZero(latitude) THEN { <<0, 0>> }
    ELSE IF FGt(sin, 0) THEN { <<ArcCos(cos), latitude>> }
    ELSE IF FIsZero(sin)
         THEN { <<ArcCos(cos), latitude>>, <<FNeg(ArcCos(cos)), latitude>> }
    ELSE { <<FNeg(ArcCos(cos)), latitude>> }

\* lines 94-98, given np.linalg.norm(vector[:2])
AnglesFromNorm(vector, norm) ==
    AnglesFromCosSin(ArcCos(vector[3]), FDiv(vector[1], norm), FDiv(vector[2], norm))

\* Ray_cylinder.calculate_angles_from_vector: the possible <<azimut, latitude>>
calculate_angles_from_vector(vector) ==
    AnglesFromNorm(vector, Sqrt(FAdd(FSq(vector[1]), FSq(vector[2]))))

\* a variant that moves the point back along the axis: z0 - cos / sin * t
IntersectionAt_Backwards(self, t) ==
    << FAdd(self.startpoint[1], FMul(Cos(self.azimut), t)),
       FAdd(self.startpoint[2], FMul(Sin(self.azimut), t)),
       FSub(self.startpoint[3],
            FMul(FDiv(Cos(self.latitude), Sin(self.latitude)), t)) >>

\* lines 124-128, given t = -gamma + np.sqrt(gamma**2 - x0**2 - y0**2 + R**2)
IntersectionAt(self, t) ==
    << FAdd(self.startpoint[1], FMul(Cos(self.azimut), t)),
       FAdd(self.startpoint[2], FMul(Sin(self.azimut), t)),
       FAdd(self.startpoint[3],
            FMul(FDiv(Cos(self.latitude), Sin(self.latitude)), t)) >>

\* the discriminant gamma**2 - x0**2 - y0**2 + R**2
Discriminant(self, R, gamma) ==
    FAdd(FSub(FSub(FSq(gamma), FSq(self.startpoint[1])), FSq(self.startpoint[2])),
         FSq(R))

\* lines 124-128, given gamma
IntersectionGamma(self, R, gamma) ==
    IntersectionAt(self, FAdd(FNeg(gamma), Sqrt(Discriminant(self, R, gamma))))

\* gamma = np.cos(phi)*x0 + np.sin(phi)*y0
Gamma(self) ==
    FAdd(FMul(Cos(self.azimut), self.startpoint[1]),
         FMul(Sin(self.azimut), self.startpoint[2]))

\* Ray_cylinder.calculate_intersection
calculate_intersection(self, core_radius) ==
    IF FIsZero(self.latitude)
    THEN << self.startpoint[1], self.startpoint[2], -1 * LUNIT >>
    ELSE IntersectionGamma(self, core_radius, Gamma(self))

\* np.dot(a, b)
Dot(a, b) == FAdd(FAdd(FMul(a[1], b[1]), FMul(a[2], b[2])), FMul(a[3], b[3]))

\* -2 * proection + self.vector, with proection = normal * angle
Reflected(vector, normal, angle) ==
    [k \in 1..3 |-> FAdd(FMul(-2 * SCALE, FMul(normal[k], angle)), vector[k])]

\* the returned triple <<azimut, latitude, angle>>
WithAngle(angles, angle) == << angles[1], angles[2], angle >>

\* lines 150-152, given angle = np.dot(normal, self.vector)
ReflectionFor(self, normal, angle) ==
    { WithAngle(angles, angle) :
          angles \in calculate_angles_from_vector(Reflected(self.vector, normal, angle)) }

\* Ray_cylinder.calculate_reflection: the possible <<azimut, latitude, angle>>
calculate_reflection(self, point, normal) ==
    ReflectionFor(self, normal, Dot(normal, self.vector))

(***************************************************************************)
(* The global generator behind np.random.random(): one state shared by     *)
(* every caller, advanced by each draw.  A small congruential generator    *)
(* stands for the Mersenne twister.                                        *)
(***************************************************************************)
RngModulus == 16
NextRng(s) == (5 * s + 3) % RngModulus
\* np.random.random(): the draw in [0, 1) made from generator state s
RandomDraw(s) == Quot(NextRng(s) * SCALE, RngModulus)

(***************************************************************************)
(* State                                                                   *)
(***************************************************************************)
VARIABLES
    fiber,      \* the Fiber_cylinder or Fiber_cone object
    ray,        \* ray[r]: the fields of Ray_cylinder object r
    trace,      \* trace[r]: the activation of ray r's calculate_trajectory
    rng         \* state of the global numpy generator

vars == <<fiber, ray, trace, rng>>

ZeroRow == <<0, 0, 0>>
\* np.zeros((max_reflection, 3))
Zeros(max_reflection) == [k \in 0..(max_reflection - 1) |-> ZeroRow]

NoResult == [Dots |-> <<>>, Angles |-> <<>>, count |-> 0, reason |-> "none"]

\* no call of calculate_trajectory made yet
NoFiber == [kind |-> "none"]

Idle ==
    [ pc |-> "idle", i |-> 0, max_reflection |-> 0, angle_elimination |-> FALSE,
      z_max |-> 0, termination_angle |-> 0, reflection_angle |-> 0,
      Dots |-> <<>>, Angles |-> <<>>, error |-> "none", result |-> NoResult,
      \* history, not read by the program:
      written |-> {},          \* indices of Dots and Angles assigned so far
      start |-> ZeroRow,       \* the ray's startpoint at the call
      start_angles |-> <<0, 0>>,  \* its azimut and latitude at the call
      degenerate |-> FALSE,    \* a step met a negative discriminant
      rng_expect |-> -1,       \* generator state its own last draw left (-1: none)
      interfered |-> FALSE,    \* a draw read a state another trace had written
      calls |-> 0,             \* calls of calculate_trajectory on this ray so far
      prev |-> NoResult,       \* what the previous call on this ray returned
      edits |-> 0,             \* setter and generator calls on this ray so far
      pending |-> ZeroRow,     \* azimut, latitude, reflection_angle between the draws
      pending_point |-> ZeroRow,   \* intersection_point between the draws
      geom |-> NoFiber,        \* the fields of the fiber when the call was made
      radius |-> 0,            \* fiber.core_r as the latest iteration read it
      \* the locals of a generator call that is between its two draws:
      held_latitude |-> <<>>,  \* generate_angles: <<latitude>>
      held_phi |-> <<>> ]      \* generate_startpoint: <<phi, radius>>

\* range(1, max_reflection)
LoopRange(max_reflection) == 1..(max_reflection - 1)

\* np.rad2deg(Angles)
Rad2DegRows(Angles) ==
    [k \in DOMAIN Angles |-> [c \in 1..3 |-> Rad2Deg(Angles[k][c])]]

\* intersection_point[2] > z_max
ReachedZMax(intersection_point, z_max) == FGt(intersection_point[3], z_max)

\* intersection_point - self.vector / self.vector[2] * (intersection_point[2] - z_max)
ClipToZMax(intersection_point, vector, z_max) ==
    [k \in 1..3 |->
        FSub(intersection_point[k],
             FMul(FDiv(vector[k], vector[3]), FSub(intersection_point[3], z_max)))]

\* a variant that drops abs(): np.pi / 2 - reflection_angle < termination_angle
ExceedsCriticalAngle_NoAbs(reflection_angle, termination_angle) ==
    FLt(FSub(HALFPI, reflection_angle), termination_angle)

\* np.pi / 2 - abs(reflection_angle) < termination_angle
ExceedsCriticalAngle(reflection_angle, termination_angle) ==
    FLt(FSub(HALFPI, FAbs(reflection_angle)), termination_angle)

\* a variant that returns the loop index itself
ReturnedCount_LoopIndex(i) == i

\* the count returned by a terminal transition in iteration i
ReturnedCount(i) == i + 1

\* termination_angle = np.arcsin(fiber.clad_n / fiber.core_n)
TerminationAngle(f) == ArcSin(FDiv(f.clad_n, f.core_n))

\* (np.random.random() - 0.5) * 2 * fiber.diffusion, drawn from generator state s
DiffusionTerm(s, diffusion) == FMul((RandomDraw(s) - SCALE \div 2) * 2, diffusion)

Results(Dots, Angles, count, reason) ==
    [Dots |-> Dots, Angles |-> Rad2DegRows(Angles), count |-> count, reason |-> reason]

(***************************************************************************)
(* Initial states: the objects as their constructors leave them            *)
(***************************************************************************)
Fibers ==
    { Fiber_cylinder(a[1], a[2], a[3], a[4], a[5], a[6]) : a \in CylinderArgs }
    \cup { Fiber_cone(a[1], a[2], a[3], 14450, 14400, 0) : a \in ConeArgs }

Rays == { set_values(a[1], a[2], a[3]) : a \in RayArgs }
ShallowRays == { set_values(a[1], a[2], a[3]) : a \in ShallowRayArgs }

\* the ray objects that exist
RayIds == DOMAIN ray

\* Diffusing an axial ray gives directions within 1/SCALE of the axis, which
\* fixed point does not resolve: the initial states leave that pairing out.
Resolved == \A r \in RayIds : fiber.diffusion = 0 \/ ~FIsZero(ray[r].latitude)

Init ==
    /\ fiber \in Fibers
    /\ ray \in [OneRay -> Rays \cup ShallowRays]
    /\ Resolved
    /\ trace = [r \in OneRay |-> Idle]
    /\ rng \in Seeds

\* the geometries and rays traced with the default budget: the scenario of a
\* metre of fiber, a diffusing fiber, a cone, and the ray along the axis,
\* whose trace runs the budget out
DefaultFibers ==
    { Fiber_cylinder(1000, 1200, 14800, 14600, LUNIT, 0),
      Fiber_cylinder(1000, 1200, 14800, 14600, 12000, 200),
      Fiber_cone(12000, 1000, 500, 14450, 14400, 0) }

DefaultRays == { set_values(0, 1745, Origin), set_values(0, 0, Origin) }

InitDefault ==
    /\ fiber \in DefaultFibers
    /\ ray \in [OneRay -> DefaultRays]
    /\ Resolved
    /\ trace = [r \in OneRay |-> Idle]
    /\ rng \in Seeds

(***************************************************************************)
(* The setters and generators of Ray_cylinder                              *)
(***************************************************************************)
\* np.deg2rad: 1/100 degrees to 1/SCALE radians
Deg2Rad(d) == IF d = NaN THEN NaN ELSE Quot(d * PI, 18000)

\* a variant that stores the angles and leaves the vector as it was
set_angles_KeepsVector(self, azimut, latitude) ==
    [self EXCEPT !.azimut = azimut, !.latitude = latitude]

\* lines 232-236
set_angles(self, azimut, latitude) ==
    [self EXCEPT !.azimut = azimut, !.latitude = latitude,
                 !.vector = Direction(azimut, latitude)]

\* line 208: the first draw gives the zenith angle
GeneratedLatitude(s, max_latitude) == Deg2Rad(FMul(RandomDraw(s), max_latitude))

\* line 209: the second draw gives the azimuth
GeneratedAzimut(s) == Deg2Rad(FMul(RandomDraw(s), 36000))

\* lines 210-214
GeneratedAngles(self, azimut, latitude) ==
    [self EXCEPT !.azimut = azimut, !.latitude = latitude,
                 !.vector = Direction(azimut, latitude)]

\* line 190
set_startpoint(self, x, y, z) == [self EXCEPT !.startpoint = <<x, y, z>>]

\* line 167: the first draw gives the polar angle
GeneratedPhi(s) == FMul(RandomDraw(s), PI)

\* line 168: the second draw gives the distance from the axis
GeneratedR(s, radius) == FMul(RandomDraw(s), radius)

\* lines 169-170
GeneratedCoords(phi, r) == << FMul(r, Cos(phi)), FMul(r, Sin(phi)), 0 >>

(***************************************************************************)
(* calculate_trajectory                                                    *)
(***************************************************************************)
\* lines 264-271: the call, up to the loop
CallFrom(r, max_reflection, angle_elimination) ==
    /\ trace' = [trace EXCEPT ![r] =
          [ pc |-> "loop", i |-> 1, max_reflection |-> max_reflection,
            angle_elimination |-> angle_elimination,
            z_max |-> fiber.z_max,
            termination_angle |-> TerminationAngle(fiber),
            reflection_angle |-> ray[r].latitude,
            Dots |-> [Zeros(max_reflection) EXCEPT ![0] = ray[r].startpoint],
            Angles |-> [Zeros(max_reflection) EXCEPT
                           ![0] = <<ray[r].azimut, ray[r].latitude, 0>>],
            error |-> "none", result |-> NoResult,
            written |-> {0}, start |-> ray[r].startpoint,
            start_angles |-> <<ray[r].azimut, ray[r].latitude>>,
            degenerate |-> FALSE, rng_expect |-> -1, interfered |-> FALSE,
            calls |-> trace[r].calls + 1, prev |-> trace[r].result,
            edits |-> trace[r].edits, pending |-> ZeroRow,
            pending_point |-> ZeroRow, geom |-> fiber, radius |-> 0,
            held_latitude |-> trace[r].held_latitude,
            held_phi |-> trace[r].held_phi ]]
    /\ UNCHANGED <<fiber, ray, rng>>

\* the first call of calculate_trajectory on a ray
Call(r, max_reflection, angle_elimination) ==
    /\ trace[r].pc = "idle"
    /\ CallFrom(r, max_reflection, angle_elimination)

\* a further call on the same ray object, after the previous one returned
\* or raised
CallAgain(r, max_reflection, angle_elimination) ==
    /\ trace[r].pc \in {"returned", "raised"}
    /\ trace[r].calls < MaxCalls
    /\ CallFrom(r, max_reflection, angle_elimination)

\* line 273 on an object without core_r
StepAttributeError(r) ==
    /\ trace' = [trace EXCEPT ![r].pc = "raised", ![r].error = "AttributeError"]
    /\ UNCHANGED <<fiber, ray, rng>>

\* np.sqrt at lines 124-126 is given a negative number
DegenerateAt(self, core_radius) ==
    ~FIsZero(self.latitude) /\ FLt(Discriminant(self, core_radius, Gamma(self)), 0)

\* the history fields of a trace after it drew once from the generator
Drawn(t) ==
    [ t EXCEPT !.interfered = @ \/ (t.rng_expect \notin {-1, rng}),
               !.rng_expect = NextRng(rng) ]

\* fiber.core_r as iteration i of trace r read it at line 273
CoreRead(r) == IF trace[r].pc = "draw" THEN trace[r].radius ELSE fiber.core_r

\* the history fields after iteration i of trace r; drew: the action that
\* completes the iteration drew from the generator
History(r, drew) ==
    [ (IF drew THEN Drawn(trace[r]) ELSE trace[r]) EXCEPT
        !.written = @ \cup {trace[r].i},
        !.degenerate = @ \/ (trace[r].pc # "draw" /\ DegenerateAt(ray[r], fiber.core_r)),
        !.radius = CoreRead(r) ]

\* the return at lines 280 and 292, after Dots[i] and Angles[i] are set
ReturnFrom(r, Dots, Angles, reason, drew) ==
    trace' = [trace EXCEPT ![r] =
                 [ History(r, drew) EXCEPT !.pc = "returned", !.Dots = Dots,
                     !.Angles = Angles,
                     !.result = Results(Dots, Angles, ReturnedCount(trace[r].i), reason) ]]

\* a variant that moves the ray to the clipped point before it returns
StepZMax_MovesRay(r, intersection_point) ==
    /\ ReturnFrom(r,
          [trace[r].Dots EXCEPT
              ![trace[r].i] = ClipToZMax(intersection_point, ray[r].vector, trace[r].z_max)],
          [trace[r].Angles EXCEPT
              ![trace[r].i] = << ray[r].azimut, ray[r].latitude,
                                 FAbs(trace[r].reflection_angle) >>],
          "z_max", FALSE)
    /\ ray' = [ray EXCEPT ![r] =
                  set_values(ray[r].azimut, ray[r].latitude,
                             ClipToZMax(intersection_point, ray[r].vector, trace[r].z_max))]
    /\ UNCHANGED <<fiber, rng>>

\* lines 274-280: the intersection lies beyond z_max
StepZMax(r, intersection_point) ==
    /\ ReturnFrom(r,
          [trace[r].Dots EXCEPT
              ![trace[r].i] = ClipToZMax(intersection_point, ray[r].vector, trace[r].z_max)],
          [trace[r].Angles EXCEPT
              ![trace[r].i] = << ray[r].azimut, ray[r].latitude,
                                 FAbs(trace[r].reflection_angle) >>],
          "z_max", FALSE)
    /\ UNCHANGED <<fiber, ray, rng>>

\* a variant that tests the angle whatever the policy says
ShouldTerminate_IgnoresPolicy(angle_elimination, reflection_angle, termination_angle) ==
    ExceedsCriticalAngle(reflection_angle, termination_angle)

\* lines 288-289: the two nested conditions
ShouldTerminate(angle_elimination, reflection_angle, termination_angle) ==
    angle_elimination /\ ExceedsCriticalAngle(reflection_angle, termination_angle)

\* lines 288-293: test the critical angle, then move the ray
StepDecide(r, intersection_point, azimut, latitude, reflection_angle, Dots, Angles) ==
    IF ShouldTerminate(trace[r].angle_elimination, reflection_angle,
                       trace[r].termination_angle)
    THEN /\ ReturnFrom(r, Dots, Angles, "reflection_angle", fiber.diffusion # 0)
         /\ UNCHANGED ray
    ELSE /\ trace' = [trace EXCEPT ![r] =
                         [ History(r, fiber.diffusion # 0) EXCEPT !.pc = "loop",
                             !.i = @ + 1, !.Dots = Dots, !.Angles = Angles,
                             !.reflection_angle = reflection_angle ]]
         /\ ray' = [ray EXCEPT ![r] = set_values(azimut, latitude, intersection_point)]

\* lines 286-287: record the point and the angles
StepRecord(r, intersection_point, azimut, latitude, reflection_angle) ==
    StepDecide(r, intersection_point, azimut, latitude, reflection_angle,
               [trace[r].Dots EXCEPT ![trace[r].i] = intersection_point],
               [trace[r].Angles EXCEPT
                   ![trace[r].i] = <<azimut, latitude, FAbs(reflection_angle)>>])

\* lines 283-284: with diffusion the iteration draws for azimut and stops
\* short of the second draw, which is a separate call on the generator;
\* without diffusion it runs on to its end
StepDiffuse(r, intersection_point, refl) ==
    IF fiber.diffusion # 0
    THEN /\ trace' = [trace EXCEPT ![r] =
                [ Drawn(trace[r]) EXCEPT !.pc = "draw",
                    !.pending = << FAdd(refl[1], DiffusionTerm(rng, fiber.diffusion)),
                                   refl[2], refl[3] >>,
                    !.pending_point = intersection_point,
                    !.radius = fiber.core_r,
                    !.degenerate = @ \/ DegenerateAt(ray[r], fiber.core_r) ]]
         /\ rng' = NextRng(rng)
         /\ UNCHANGED ray
    ELSE /\ StepRecord(r, intersection_point, refl[1], refl[2], refl[3])
         /\ UNCHANGED rng

\* lines 281-293: reflect, record, test the critical angle, move the ray
StepReflect(r, intersection_point) ==
    /\ \E refl \in calculate_reflection(ray[r], intersection_point,
                                         find_normal(intersection_point)) :
           StepDiffuse(r, intersection_point, refl)
    /\ UNCHANGED fiber

\* lines 274-293, given the intersection point
StepAt(r, intersection_point) ==
    IF ReachedZMax(intersection_point, trace[r].z_max)
    THEN StepZMax(r, intersection_point)
    ELSE StepReflect(r, intersection_point)

\* lines 272-293: one iteration of the loop
Step(r) ==
    /\ trace[r].pc = "loop"
    /\ trace[r].i \in LoopRange(trace[r].max_reflection)
    /\ IF ~HasAttr(fiber, "core_r") THEN StepAttributeError(r)
       ELSE StepAt(r, calculate_intersection(ray[r], fiber.core_r))

\* lines 285-293: the draw for latitude and the rest of the iteration
DrawLatitude(r) ==
    /\ trace[r].pc = "draw"
    /\ StepRecord(r, trace[r].pending_point, trace[r].pending[1],
                  FAdd(trace[r].pending[2], DiffusionTerm(rng, fiber.diffusion)),
                  trace[r].pending[3])
    /\ rng' = NextRng(rng)
    /\ UNCHANGED fiber

\* lines 294-296: the loop ran out
Exhaust(r) ==
    /\ trace[r].pc = "loop"
    /\ trace[r].i \notin LoopRange(trace[r].max_reflection)
    /\ trace' = [trace EXCEPT ![r].pc = "returned",
                    ![r].result = Results(trace[r].Dots, trace[r].Angles,
                                          trace[r].max_reflection, "max_reflections")]
    /\ UNCHANGED <<fiber, ray, rng>>

\* The setters of the geometry. Nothing in them or in calculate_trajectory
\* keeps a caller from using them while a trace is inside its loop; a trace
\* reads z_max and the indices once, at its call, and core_r in every
\* iteration.

\* Fiber_cylinder.set_geometry
CylinderSetGeometry(core_r, clad_r, z) ==
    /\ fiber.kind = "cylinder"
    /\ fiber' = Cylinder_set_geometry(fiber, core_r, clad_r, z)
    /\ UNCHANGED <<ray, trace, rng>>

\* Fiber_cylinder.set_refr
CylinderSetRefr(core_n, clad_n) ==
    /\ fiber.kind = "cylinder"
    /\ fiber' = Cylinder_set_refr(fiber, core_n, clad_n)
    /\ UNCHANGED <<ray, trace, rng>>

\* Fiber_cone.set_geometry
ConeSetGeometry(z_max, base_r, top_r) ==
    /\ fiber.kind = "cone"
    /\ fiber' = Cone_set_geometry(fiber, z_max, base_r, top_r)
    /\ UNCHANGED <<ray, trace, rng>>

\* Fiber_cone.set_refr
ConeSetRefr(core_n, clad_n) ==
    /\ fiber.kind = "cone"
    /\ fiber' = Cone_set_refr(fiber, core_n, clad_n)
    /\ UNCHANGED <<ray, trace, rng>>

Next ==
    \/ \E r \in RayIds, n \in 1..MaxReflection, e \in BOOLEAN : Call(r, n, e)
    \/ \E r \in RayIds : Step(r)
    \/ \E r \in RayIds : DrawLatitude(r)
    \/ \E r \in RayIds : Exhaust(r)
    \/ \E a \in GeometryArgs : CylinderSetGeometry(a[1], a[2], a[3])
    \/ \E a \in RefrArgs : CylinderSetRefr(a[1], a[2])
    \/ \E a \in ConeArgs : ConeSetGeometry(a[1], a[2], a[3])
    \/ \E a \in RefrArgs : ConeSetRefr(a[1], a[2])

Spec == Init /\ [][Next]_vars

(***************************************************************************)
(* One ray traced with the defaults of calculate_trajectory                *)
(* (max_reflection = 1000, angle_elimination = True)                       *)
(***************************************************************************)
NextDefault ==
    \/ \E r \in RayIds : Call(r, DefaultMaxReflection, TRUE)
    \/ \E r \in RayIds : Step(r)
    \/ \E r \in RayIds : DrawLatitude(r)
    \/ \E r \in RayIds : Exhaust(r)
    \/ \E a \in GeometryArgs : CylinderSetGeometry(a[1], a[2], a[3])
    \/ \E a \in DefaultRefrArgs : CylinderSetRefr(a[1], a[2])
    \/ \E a \in ConeArgs : ConeSetGeometry(a[1], a[2], a[3])
    \/ \E a \in DefaultRefrArgs : ConeSetRefr(a[1], a[2])

SpecDefault == InitDefault /\ [][NextDefault]_vars

(***************************************************************************)
(* A batch: two rays traced through one shared geometry, their steps       *)
(* interleaved                                                             *)
(***************************************************************************)
BatchFibers ==
    { Fiber_cylinder(1000, 1200, 14800, 14600, 12000, 200),
      Fiber_cylinder(1000, 1200, 14800, 14600, 12000, 0),
      Fiber_cone(12000, 1000, 500, 14450, 14400, 0) }

\* constructor arguments of the two rays
BatchRayArgs == << <<0, 1745, Origin>>, <<0, 5236, <<-500, 0, 0>> >> >>

\* arguments of set_refr around the traces of a batch, around repeated calls
\* and around the calls of the ray's setters
BatchRefrArgs == { <<14600, 14800>> }

InitBatch ==
    /\ fiber \in BatchFibers
    /\ ray = [r \in BatchRays |-> set_values(BatchRayArgs[r][1], BatchRayArgs[r][2],
                                              BatchRayArgs[r][3])]
    /\ trace = [r \in BatchRays |-> Idle]
    /\ rng \in Seeds

NextBatch ==
    \/ \E r \in RayIds, n \in 1..MaxReflection : Call(r, n, FALSE)
    \/ \E r \in RayIds : Step(r)
    \/ \E r \in RayIds : DrawLatitude(r)
    \/ \E r \in RayIds : Exhaust(r)
    \/ \E a \in GeometryArgs : CylinderSetGeometry(a[1], a[2], a[3])
    \/ \E a \in BatchRefrArgs : CylinderSetRefr(a[1], a[2])
    \/ \E a \in ConeArgs : ConeSetGeometry(a[1], a[2], a[3])
    \/ \E a \in BatchRefrArgs : ConeSetRefr(a[1], a[2])

SpecBatch == InitBatch /\ [][NextBatch]_vars


(***************************************************************************)
(* One ray object used again: further calls of calculate_trajectory, and   *)
(* the setters and generators before and after a trace                     *)
(***************************************************************************)
\* arguments of set_values: <<azimut, latitude, startpoint>>
ValueArgs == { <<0, 5236, <<-500, 0, 0>> >> }
\* arguments of set_angles: <<azimut, latitude>>
AngleArgs == { <<HALFPI, 1745>> }
\* arguments of set_startpoint: <<x, y, z>>
PointArgs == { <<0, -500, 1000>> }
\* arguments of generate_startpoint
Radii == { 1000 }

\* The setters and generators of the ray. Nothing in them or in
\* calculate_trajectory keeps a caller from using them while a trace of the
\* ray is inside its loop; the trace reads the ray anew in every iteration.
\* A generator makes two separate calls on the process-wide generator, and
\* other calls can come between them.

\* a setter call on ray r
Edit(r, self) ==
    /\ trace[r].edits < MaxEdits
    /\ ray' = [ray EXCEPT ![r] = self]
    /\ trace' = [trace EXCEPT ![r].edits = @ + 1]
    /\ UNCHANGED <<fiber, rng>>

SetValues(r, azimut, latitude, startpoint) ==
    Edit(r, set_values(azimut, latitude, startpoint))

SetAngles(r, azimut, latitude) == Edit(r, set_angles(ray[r], azimut, latitude))

SetStartpoint(r, x, y, z) == Edit(r, set_startpoint(ray[r], x, y, z))

\* generate_angles up to its first draw, line 208
GenerateAngles(r, max_latitude) ==
    /\ trace[r].edits < MaxEdits
    /\ trace[r].held_latitude = <<>>
    /\ trace' = [trace EXCEPT ![r].edits = @ + 1,
                    ![r].held_latitude = << GeneratedLatitude(rng, max_latitude) >>]
    /\ rng' = NextRng(rng)
    /\ UNCHANGED <<fiber, ray>>

\* generate_angles from its second draw, lines 209-214
GenerateAnglesAzimut(r) ==
    /\ trace[r].held_latitude # <<>>
    /\ ray' = [ray EXCEPT ![r] =
                  GeneratedAngles(ray[r], GeneratedAzimut(rng), trace[r].held_latitude[1])]
    /\ trace' = [trace EXCEPT ![r].held_latitude = <<>>]
    /\ rng' = NextRng(rng)
    /\ UNCHANGED fiber

\* generate_startpoint up to its first draw, line 167
GenerateStartpoint(r, radius) ==
    /\ trace[r].edits < MaxEdits
    /\ trace[r].held_phi = <<>>
    /\ trace' = [trace EXCEPT ![r].edits = @ + 1,
                    ![r].held_phi = << GeneratedPhi(rng), radius >>]
    /\ rng' = NextRng(rng)
    /\ UNCHANGED <<fiber, ray>>

\* generate_startpoint from its second draw, lines 168-170
GenerateStartpointR(r) ==
    /\ trace[r].held_phi # <<>>
    /\ ray' = [ray EXCEPT ![r].startpoint =
                  GeneratedCoords(trace[r].held_phi[1],
                                  GeneratedR(rng, trace[r].held_phi[2]))]
    /\ trace' = [trace EXCEPT ![r].held_phi = <<>>]
    /\ rng' = NextRng(rng)
    /\ UNCHANGED fiber

\* the geometries and rays of the repeated calls
AgainFibers ==
    { Fiber_cylinder(1000, 1200, 14800, 14600, 12000, 0),
      Fiber_cylinder(1000, 1200, 14800, 14600, 12000, 200),
      Fiber_cone(12000, 1000, 500, 14450, 14400, 0) }

AgainRays == { set_values(0, 1745, Origin), set_values(0, 5236, <<-500, 0, 0>>) }

InitAgain ==
    /\ fiber \in AgainFibers
    /\ ray \in [OneRay -> AgainRays]
    /\ Resolved
    /\ trace = [r \in OneRay |-> Idle]
    /\ rng \in Seeds

NextAgain ==
    \/ \E r \in RayIds, n \in 1..MaxReflection, e \in BOOLEAN : Call(r, n, e)
    \/ \E r \in RayIds, n \in 1..MaxReflection, e \in BOOLEAN : CallAgain(r, n, e)
    \/ \E r \in RayIds : Step(r)
    \/ \E r \in RayIds : DrawLatitude(r)
    \/ \E r \in RayIds : Exhaust(r)
    \/ \E a \in GeometryArgs : CylinderSetGeometry(a[1], a[2], a[3])
    \/ \E a \in BatchRefrArgs : CylinderSetRefr(a[1], a[2])
    \/ \E a \in ConeArgs : ConeSetGeometry(a[1], a[2], a[3])
    \/ \E a \in BatchRefrArgs : ConeSetRefr(a[1], a[2])

SpecAgain == InitAgain /\ [][NextAgain]_vars

\* the geometries the edited rays are traced through
RayFibers ==
    { Fiber_cylinder(1000, 1200, 14800, 14600, 12000, 0),
      Fiber_cylinder(1000, 1200, 14800, 14600, 12000, 200) }

\* the ray that is edited and traced
EditedRays == ShallowRays

\* the budgets of its traces: the setters can be called at every point of a
\* trace, so that the traces are kept to one iteration
RayBudgets == { 2 }

InitRay ==
    /\ fiber \in RayFibers
    /\ ray \in [OneRay -> EditedRays]
    /\ Resolved
    /\ trace = [r \in OneRay |-> Idle]
    /\ rng \in Seeds

NextRay ==
    \/ \E r \in RayIds, n \in RayBudgets : Call(r, n, TRUE)
    \/ \E r \in RayIds : Step(r)
    \/ \E r \in RayIds : DrawLatitude(r)
    \/ \E r \in RayIds : Exhaust(r)
    \/ \E a \in GeometryArgs : CylinderSetGeometry(a[1], a[2], a[3])
    \/ \E a \in BatchRefrArgs : CylinderSetRefr(a[1], a[2])
    \/ \E r \in RayIds, a \in ValueArgs : SetValues(r, a[1], a[2], a[3])
    \/ \E r \in RayIds, a \in AngleArgs : SetAngles(r, a[1], a[2])
    \/ \E r \in RayIds : GenerateAngles(r, DefaultMaxLatitude)
    \/ \E r \in RayIds : GenerateAnglesAzimut(r)
    \/ \E r \in RayIds, p \in PointArgs : SetStartpoint(r, p[1], p[2], p[3])
    \/ \E r \in RayIds, radius \in Radii : GenerateStartpoint(r, radius)
    \/ \E r \in RayIds : GenerateStartpointR(r)

SpecRay == InitRay /\ [][NextRay]_vars

(***************************************************************************)
(* Properties                                                              *)
(***************************************************************************)
Reasons == {"z_max", "reflection_angle", "max_reflections"}

Returned(r) == trace[r].pc = "returned"

\* some entry of the rows is NaN
RowsHaveNaN(rows) == \E k \in DOMAIN rows : \E c \in 1..3 : rows[k][c] = NaN

\* the z coordinates of entries 0..count-1 increase strictly
ZIncreasing(res) ==
    \A k \in 1..(res.count - 1) : FLt(res.Dots[k - 1][3], res.Dots[k][3])

\* C1: every call that has left its loop has returned one of the three
\* termination reasons after at most max_reflection - 1 steps, and the reason
\* is max_reflections exactly when no step made a terminal transition.
C1_EndsInOneOfThree ==
    \A r \in RayIds :
        trace[r].pc \notin {"idle", "loop", "draw"} =>
            /\ Returned(r)
            /\ trace[r].result.reason \in Reasons
            /\ trace[r].i <= trace[r].max_reflection
            /\ (trace[r].result.reason = "max_reflections")
                   <=> (trace[r].i \notin LoopRange(trace[r].max_reflection))

\* C2: in every result the count is the number of entries assigned, which are
\* the entries 0..count-1; entry 0 is the start point with the initial angles
\* and incidence 0; a terminal transition in iteration k returns k + 1, an
\* exhausted budget returns max_reflection; every later slot is still zero.
C2_CountIsPopulated ==
    \A r \in RayIds :
        Returned(r) =>
            /\ trace[r].result.count = Cardinality(trace[r].written)
            /\ trace[r].written = 0..(trace[r].result.count - 1)
            /\ trace[r].result.Dots[0] = trace[r].start
            /\ trace[r].result.Angles[0] =
                   << Rad2Deg(trace[r].start_angles[1]),
                      Rad2Deg(trace[r].start_angles[2]), 0 >>
            /\ trace[r].result.reason \in {"z_max", "reflection_angle"}
                   => trace[r].result.count = trace[r].i + 1
            /\ trace[r].result.reason = "max_reflections"
                   => trace[r].result.count = trace[r].max_reflection
            /\ \A k \in DOMAIN trace[r].result.Dots :
                   k >= trace[r].result.count =>
                       /\ trace[r].result.Dots[k] = ZeroRow
                       /\ trace[r].result.Angles[k] = ZeroRow

\* C2 witness: a trace ended by a terminal transition after a reflection, with
\* a slot left unused
C2_Witness ==
    \E r \in RayIds :
        /\ Returned(r)
        /\ trace[r].result.reason = "reflection_angle"
        /\ trace[r].result.count = 2
        /\ trace[r].max_reflection = 3

\* C3: in a cylinder with z_max > 0, a ray with zenith 0 that starts at
\* (x, y, z0), z0 <= z_max, ends on its first step with reason z_max, its last
\* recorded point being (x, y, z_max).
C3_AxialRayReachesZMax ==
    \A r \in RayIds :
        ( /\ Returned(r)
          /\ trace[r].geom.kind = "cylinder"
          /\ trace[r].z_max > 0
          /\ trace[r].max_reflection >= 2
          /\ trace[r].start_angles[2] = 0
          /\ trace[r].start[3] <= trace[r].z_max )
        => /\ trace[r].result.reason = "z_max"
           /\ trace[r].result.count = 2
           /\ trace[r].result.Dots[1] =
                  << trace[r].start[1], trace[r].start[2], trace[r].z_max >>

\* C4: a trace whose intersection has a negative discriminant is aborted with
\* an error: it returns nothing and records no NaN point or angle.
C4_DegenerateIsAborted ==
    \A r \in RayIds :
        trace[r].degenerate =>
            /\ trace[r].pc = "raised"
            /\ ~RowsHaveNaN(trace[r].Dots)
            /\ ~RowsHaveNaN(trace[r].Angles)

\* C5: a call against a geometry with clad_n > core_n is rejected before any
\* step: nothing beyond the start entry is written and no reason is returned.
C5_CladAboveCoreRejected ==
    \A r \in RayIds :
        (trace[r].pc # "idle" /\ FGt(trace[r].geom.clad_n, trace[r].geom.core_n)) =>
            /\ trace[r].pc = "raised"
            /\ trace[r].written \subseteq {0}
            /\ trace[r].result.reason = "none"

\* the case of C6: equal indices, elimination on, no diffusion, an oblique ray
\* started strictly inside the core whose first step was a reflection
C6_Case(r) ==
    /\ Returned(r)
    /\ trace[r].geom.kind = "cylinder"
    /\ trace[r].geom.core_n = trace[r].geom.clad_n
    /\ trace[r].geom.diffusion = 0
    /\ trace[r].angle_elimination
    /\ trace[r].start_angles[2] > 0
    /\ trace[r].start_angles[2] < HALFPI
    /\ FSq(trace[r].start[1]) + FSq(trace[r].start[2]) < FSq(trace[r].geom.core_r)
    /\ trace[r].result.count >= 2
    /\ ~(trace[r].result.reason = "z_max" /\ trace[r].result.count = 2)

\* C6: with equal core and cladding indices, elimination on and no diffusion,
\* an oblique ray started strictly inside the core that reflects at all ends
\* with reason reflection_angle at its first reflection, with count 2.
C6_EqualIndicesEndAtFirstReflection ==
    \A r \in RayIds :
        C6_Case(r) =>
            /\ trace[r].result.reason = "reflection_angle"
            /\ trace[r].result.count = 2

\* C6 witness: such a trace has returned, with room for more reflections
C6_Witness == \E r \in RayIds : C6_Case(r) /\ trace[r].max_reflection = 3

\* the scenario of C7: Cylinder(1e-4, 1.2e-4, 1.48, 1.46, 1.0), ray from
\* (0,0,0) with azimuth 0 and zenith deg2rad(10), default budget and policy
C7_Scenario(r) ==
    /\ Returned(r)
    /\ trace[r].geom = Fiber_cylinder(1000, 1200, 14800, 14600, LUNIT, 0)
    /\ trace[r].start = Origin
    /\ trace[r].start_angles = <<0, 1745>>
    /\ trace[r].max_reflection = DefaultMaxReflection
    /\ trace[r].angle_elimination

\* C7 as stated: in the scenario the z coordinate increases strictly from
\* entry to entry and the trace ends with reason z_max.
C7_ScenarioReachesZMax ==
    \A r \in RayIds :
        C7_Scenario(r) =>
            /\ ZIncreasing(trace[r].result)
            /\ trace[r].result.reason = "z_max"

\* C7 amended: in the scenario the z coordinate increases strictly from entry
\* to entry and the trace ends at the first reflection with reason
\* reflection_angle and count 2.
C7_ScenarioEndsAtCriticalAngle ==
    \A r \in RayIds :
        C7_Scenario(r) =>
            /\ ZIncreasing(trace[r].result)
            /\ trace[r].result.reason = "reflection_angle"
            /\ trace[r].result.count = 2

\* C7 witness: the scenario's trace has returned
C7_Witness == \E r \in RayIds : C7_Scenario(r)

\* C8: a trace through a cone never fails for want of a field that only the
\* cylinder has; it returns one of the three reasons like any other.
C8_ConeIsTraced ==
    \A r \in RayIds :
        (fiber.kind = "cone" /\ trace[r].pc \notin {"idle", "loop", "draw"}) =>
            /\ Returned(r)
            /\ trace[r].result.reason \in Reasons

\* C9: a cone never holds an undefined angle or c.
C9_ConeAngleDefined ==
    fiber.kind = "cone" => (fiber.angle # NaN /\ fiber.c # NaN)

\* C10: no trace of a batch reads generator state that another trace wrote
\* between its own steps.
C10_TracesIndependent == \A r \in RayIds : ~trace[r].interfered

\* C11: when a step finds the intersection beyond z_max, the entry it records
\* has z equal to z_max, carries the azimuth and zenith the ray had before the
\* step, and carries the incidence angle of the previous entry, which is 0
\* when the previous entry is the start point.
C11_ZMaxEntry ==
    \A r \in RayIds :
        (Returned(r) /\ trace[r].result.reason = "z_max") =>
            /\ trace[r].result.Dots[trace[r].i][3] = trace[r].z_max
            /\ trace[r].result.Angles[trace[r].i][1] = Rad2Deg(ray[r].azimut)
            /\ trace[r].result.Angles[trace[r].i][2] = Rad2Deg(ray[r].latitude)
            /\ trace[r].result.Angles[trace[r].i][3] =
                   trace[r].result.Angles[trace[r].i - 1][3]

\* pi/2 - |incidence value| of entry j is strictly below the critical angle
C12_Below(r, j) ==
    /\ trace[r].Angles[j][3] # NaN
    /\ trace[r].termination_angle # NaN
    /\ HALFPI - trace[r].Angles[j][3] < trace[r].termination_angle

\* the entries of a returned trace that reflection steps wrote
C12_Reflections(r) ==
    IF trace[r].result.reason = "z_max"
    THEN 1..(trace[r].result.count - 2)
    ELSE 1..(trace[r].result.count - 1)

\* the point lies on the core boundary, within the rounding of the coordinates
C12_OnBoundary(point, core_r) ==
    /\ point[1] # NaN /\ point[2] # NaN
    /\ Abs(point[1] * point[1] + point[2] * point[2] - core_r * core_r)
           <= 4 * core_r + 4

\* C12: a trace ends with reflection_angle at step k exactly when elimination
\* is on and k is the first reflection step whose pi/2 - |incidence value| is
\* strictly below asin(clad_n / core_n); that step's intersection is not
\* beyond z_max and its reflection point and angles are recorded; with
\* elimination off no trace ends with reflection_angle.
C12_CriticalAngleExit ==
    \A r \in RayIds :
        Returned(r) =>
            /\ (trace[r].result.reason = "reflection_angle")
                   <=> ( /\ trace[r].angle_elimination
                         /\ \E j \in C12_Reflections(r) : C12_Below(r, j) )
            /\ trace[r].angle_elimination =>
                   \A j \in C12_Reflections(r) :
                       C12_Below(r, j) =>
                           /\ j = trace[r].result.count - 1
                           /\ j = trace[r].i
                           /\ trace[r].result.reason = "reflection_angle"
            /\ trace[r].result.reason = "reflection_angle" =>
                   /\ trace[r].i \in trace[r].written
                   /\ ~FGt(trace[r].result.Dots[trace[r].i][3], trace[r].z_max)
                   /\ C12_OnBoundary(trace[r].result.Dots[trace[r].i], trace[r].radius)
                   /\ trace[r].result.Angles[trace[r].i][3] =
                          Rad2Deg(trace[r].Angles[trace[r].i][3])

\* C12 witness: a trace whose first reflection stayed within the critical
\* angle and whose second did not
C12_Witness ==
    \E r \in RayIds :
        /\ Returned(r)
        /\ trace[r].result.reason = "reflection_angle"
        /\ trace[r].result.count = 3
        /\ ~C12_Below(r, 1)
        /\ C12_Below(r, 2)

\* C13: the stored direction vector is the one derived from the stored
\* azimuth and zenith, after construction and after every setter, generator
\* and trace step.
C13_VectorFromAngles ==
    \A r \in RayIds : ray[r].vector = Direction(ray[r].azimut, ray[r].latitude)

\* C13 witness: a ray whose angles were changed by set_angles or
\* generate_angles and then by a diffusive trace step
C13_Witness ==
    \E r \in RayIds :
        /\ trace[r].edits > 0
        /\ trace[r].pc = "loop"
        /\ trace[r].i = 2
        /\ fiber.diffusion # 0
        /\ <<ray[r].azimut, ray[r].latitude>> # trace[r].start_angles
        /\ trace[r].start_angles \notin { <<a[1], a[2]>> : a \in RayArgs \cup ShallowRayArgs }

\* the index of the trajectory entry a ray is left at by a trace that
\* returned count entries for the given reason
C14_LeftAt(count, reason) ==
    IF reason = "max_reflections" THEN count - 1 ELSE count - 2

\* C14: after max_reflections the ray's position and angles are those of the
\* last recorded entry; after z_max or reflection_angle they are those of the
\* entry before the last one; and a further call on the same ray, made after
\* a call that returned, starts from that left-over state.
C14_RayLeftBehind ==
    \A r \in RayIds :
        /\ Returned(r) =>
               /\ ray[r].startpoint =
                      trace[r].Dots[C14_LeftAt(trace[r].result.count,
                                               trace[r].result.reason)]
               /\ <<ray[r].azimut, ray[r].latitude>> =
                      << trace[r].Angles[C14_LeftAt(trace[r].result.count,
                                                    trace[r].result.reason)][1],
                         trace[r].Angles[C14_LeftAt(trace[r].result.count,
                                                    trace[r].result.reason)][2] >>
        /\ (trace[r].pc # "idle" /\ trace[r].calls >= 2
                /\ trace[r].prev.reason \in Reasons) =>
               /\ trace[r].start =
                      trace[r].prev.Dots[C14_LeftAt(trace[r].prev.count,
                                                    trace[r].prev.reason)]
               /\ Rad2Deg(trace[r].start_angles[1]) =
                      trace[r].prev.Angles[C14_LeftAt(trace[r].prev.count,
                                                      trace[r].prev.reason)][1]
               /\ Rad2Deg(trace[r].start_angles[2]) =
                      trace[r].prev.Angles[C14_LeftAt(trace[r].prev.count,
                                                      trace[r].prev.reason)][2]

\* C14 witness: a second call that started where an exhausted first call left
\* the ray, away from the original start point, and ended at z_max
C14_Witness ==
    \E r \in RayIds :
        /\ Returned(r)
        /\ trace[r].calls = 2
        /\ trace[r].prev.reason = "max_reflections"
        /\ trace[r].start # trace[r].prev.Dots[0]
        /\ trace[r].result.reason = "z_max"
        /\ ray[r].startpoint # trace[r].result.Dots[trace[r].result.count - 1]

=============================================================================
